---- MODULE Spec2Model ----
(***************************************************************************)
(* Lorbeer-Turnierplaner: the tournament store (tournaments, matches and   *)
(* their two sides), the schedule generators and the request handlers that *)
(* mutate the store.  Each handler runs inside one database session; a     *)
(* handler that raises an HTTPException leaves the session uncommitted, so *)
(* the store keeps its value and only the response changes.                *)
(***************************************************************************)
EXTENDS Integers, Sequences, FiniteSets, TLC

\* ------------------------------------------------------------------ bounds
MaxTournaments == 2      \* tournaments that exist at the same time
MaxShuffle == 1          \* random.shuffle outcomes explored: rotations by 0..MaxShuffle
MaxLegTarget == 1        \* match ids an admin sends a "leg" patch for: 1..MaxLegTarget
MaxSideTarget == 1       \* match ids that receive side (goals/club) patches
MaxReorderSpan == 1      \* reorder requests swap neighbours among the last MaxReorderSpan+1 matches
MaxMatches == 6          \* match rows one tournament holds at most (3 per leg)
MaxTime == 2             \* clock readings 1..MaxTime (specification SpecClock)
MaxStatusMatches == 4    \* matches of the tournaments whose status SpecStatus derives
MaxLegMatches == 8       \* order indices of SpecLeg stay below MaxLegMatches
MaxOrderedLabels == 5    \* SpecSched: rosters of up to this many players start in any order

\* ------------------------------------------------------- program constants
None == -1               \* Python None: an unset timestamp or club_id, an empty aggregate
NumClubs == 1            \* rows of the club table: ids 1..NumClubs
NumPlayers == 6          \* rows of the player table: ids 1..NumPlayers

Roles == {"editor", "admin"}
States == {"scheduled", "playing", "finished"}
Modes == {"1v1", "2v2"}
ClubIds == 1..NumClubs
PlayerIds == 1..NumPlayers
TournamentIds == 1..MaxTournaments

\* ----------------------------------------------------------- small helpers
Min(S) == CHOOSE x \in S : \A y \in S : x <= y
Max(S) == CHOOSE x \in S : \A y \in S : x >= y
Range(s) == {s[i] : i \in 1..Len(s)}

RECURSIVE SortBy(_, _)
\* the elements of the finite set S as a sequence, ascending by key[x]
\* (keys are distinct wherever this is used)
SortBy(S, key) ==
  IF S = {} THEN <<>>
  ELSE LET x == CHOOSE x \in S : \A y \in S : key[x] <= key[y]
       IN <<x>> \o SortBy(S \ {x}, key)

\* fault: a shuffle that loses the first element
shuffle_loses_first(s, k) == Tail(s)

\* random.shuffle(s): of its outcomes the model explores the rotations of s,
\* outcome k being s rotated left by k places
shuffled(s, k) == [i \in 1..Len(s) |-> s[((i - 1 + k) % Len(s)) + 1]]
ShuffleOutcomes == 0..MaxShuffle

\* ---------------------------------------------------------- scheduling.py
\* labels are the positions 1..n ("A","B",...); label_to_name[l] is the name
\* (here: the player id) that stands at position l after the optional shuffle
assign_labels(player_names, shuffle, outcome) ==
  LET names == IF shuffle THEN shuffled(player_names, outcome) ELSE player_names
  IN [labels |-> [i \in 1..Len(names) |-> i], label_to_name |-> names]

RECURSIVE combinations2(_, _, _)
\* itertools.combinations(labels, 2) from position (i, j) on
combinations2(labels, i, j) ==
  IF i >= Len(labels) THEN <<>>
  ELSE IF j > Len(labels) THEN combinations2(labels, i + 1, i + 2)
  ELSE << <<labels[i], labels[j]>> >> \o combinations2(labels, i, j + 1)

\* fault: only the pairs that hold the first label
schedule_first_against_all(labels) ==
  [k \in 1..(Len(labels) - 1) |-> << <<labels[1]>>, <<labels[k + 1]>> >>]

schedule_1v1_labels(labels) ==
  LET c == combinations2(labels, 1, 2)
  IN [k \in 1..Len(c) |-> << <<c[k][1]>>, <<c[k][2]>> >>]

BYE == 0
SortedPair(a, b) == IF a <= b THEN <<a, b>> ELSE <<b, a>>

\* one round of the circle method: position i against position n-1-i
RoundPairs(arr) ==
  LET n == Len(arr)
      half == n \div 2
      all == [i \in 1..half |-> <<arr[i], arr[n + 1 - i]>>]
      kept == SelectSeq(all, LAMBDA pr : pr[1] # BYE /\ pr[2] # BYE)
  IN [i \in 1..Len(kept) |-> SortedPair(kept[i][1], kept[i][2])]

\* fault: the circle is never rotated
no_rotation(arr) == arr

\* arr = [arr[0]] + [arr[-1]] + arr[1:-1]
RotateArr(arr) ==
  <<arr[1]>> \o <<arr[Len(arr)]>> \o SubSeq(arr, 2, Len(arr) - 1)

RECURSIVE RoundsFrom(_, _)
RoundsFrom(arr, k) ==
  IF k = 0 THEN <<>>
  ELSE <<RoundPairs(arr)>> \o RoundsFrom(RotateArr(arr), k - 1)

round_robin_pairings(labels) ==
  LET players == IF Len(labels) % 2 = 1 THEN Append(labels, BYE) ELSE labels
  IN RoundsFrom(players, Len(players) - 1)

disjoint(p, q) == (p[1] \notin Range(q)) /\ (p[2] \notin Range(q))

\* index of the first element of pending that is disjoint from p, 0 when none
FirstDisjoint(p, pending) ==
  LET hits == {i \in 1..Len(pending) : disjoint(p, pending[i])}
  IN IF hits = {} THEN 0 ELSE Min(hits)

RemoveAt(s, j) == SubSeq(s, 1, j - 1) \o SubSeq(s, j + 1, Len(s))

RECURSIVE pair_leftovers(_, _)
\* the while loop of schedule_2v2_labels over (pending, extra);
\* broke records that the loop was left through the defensive break
pair_leftovers(pending, extra) ==
  IF Len(pending) < 2 THEN [pending |-> pending, extra |-> extra, broke |-> FALSE]
  ELSE LET p == Head(pending)
           rest == Tail(pending)
           j == FirstDisjoint(p, rest)
       IN IF j = 0
          THEN LET requeued == Append(rest, p)
               IN IF \A i \in 2..Len(requeued) : ~disjoint(requeued[1], requeued[i])
                  THEN [pending |-> requeued, extra |-> extra, broke |-> TRUE]
                  ELSE pair_leftovers(requeued, extra)
          ELSE pair_leftovers(RemoveAt(rest, j), Append(extra, <<p, rest[j]>>))

players_in_match(m) == <<m[1][1], m[1][2], m[2][1], m[2][2]>>

\* how often x occurs in the sequence s
CountIn(s, x) == Cardinality({i \in 1..Len(s) : s[i] = x})

teammate_count(matches, pp) ==
  Cardinality({i \in 1..Len(matches) : matches[i][1] = pp})
  + Cardinality({i \in 1..Len(matches) : matches[i][2] = pp})

opponent_count(matches, pp) ==
  Cardinality({i \in 1..Len(matches) :
     \/ (pp[1] \in Range(matches[i][1]) /\ pp[2] \in Range(matches[i][2]))
     \/ (pp[2] \in Range(matches[i][1]) /\ pp[1] \in Range(matches[i][2]))})

match_count(matches, p) ==
  Cardinality({i \in 1..Len(matches) : p \in Range(players_in_match(matches[i]))})

candidate_splits_of_4(ps) ==
  << <<SortedPair(ps[1], ps[2]), SortedPair(ps[3], ps[4])>>,
     <<SortedPair(ps[1], ps[3]), SortedPair(ps[2], ps[4])>>,
     <<SortedPair(ps[1], ps[4]), SortedPair(ps[2], ps[3])>> >>

RECURSIVE SumOver(_, _)
SumOver(S, f) ==
  IF S = {} THEN 0
  ELSE LET x == CHOOSE x \in S : TRUE IN f[x] + SumOver(S \ {x}, f)

\* every unordered pair of players
all_pairs(players) ==
  {SortedPair(players[i], players[j]) :
     <<i, j>> \in {ij \in (1..Len(players)) \X (1..Len(players)) : ij[1] < ij[2]}}

\* (max_team, repeated_team_pairs, opp_range, opp_sse) from the teammate
\* counts tc and the opponent counts oc; opp_sse is
\* int(round(sum((v - 36/15)^2) * 1000)) = 40 * sum((5v - 12)^2)
score_from_counts(pairs, tc, oc) ==
  << Max({tc[pp] : pp \in pairs}),
     Cardinality({pp \in pairs : tc[pp] = 2}),
     Max({oc[pp] : pp \in pairs}) - Min({oc[pp] : pp \in pairs}),
     40 * SumOver(pairs, [pp \in pairs |-> (5 * oc[pp] - 12) * (5 * oc[pp] - 12)]) >>

\* the counts over the matches m = base + [add]
score_of_matches(pairs, m) ==
  score_from_counts(pairs,
                    [pp \in pairs |-> teammate_count(m, pp)],
                    [pp \in pairs |-> opponent_count(m, pp)])

score_added_match(players, base, add) ==
  score_of_matches(all_pairs(players), Append(base, add))

\* Python's tuple order on score tuples
ScoreLess(a, b) ==
  \E k \in 1..4 : a[k] < b[k] /\ \A i \in 1..(k - 1) : a[i] = b[i]

\* fault: the second split, whatever the scores
second_candidate(candidates, score) == candidates[2]

\* min(candidates, key=score): the first candidate no other candidate beats
best_candidate(candidates, score) ==
  candidates[Min({k \in 1..3 : \A o \in 1..3 : ~ScoreLess(score[o], score[k])})]

\* the choice among the three splits of the four players that are short
add_best_split(labels, matches8, candidates) ==
  Append(matches8,
         best_candidate(candidates,
                        [k \in 1..3 |-> score_added_match(labels, matches8, candidates[k])]))

\* mc[i] is the match count of labels[i], lows the players with the least
add_9th_from_counts(labels, matches8, mc, lows) ==
  IF \/ Len(lows) # 4
     \/ Len(labels) # 6
     \/ Cardinality({i \in 1..Len(labels) : mc[i] = 5}) # 4
     \/ Cardinality({i \in 1..Len(labels) : mc[i] = 6}) # 2
  THEN [err |-> TRUE, matches |-> matches8]
  ELSE [err |-> FALSE,
        matches |-> add_best_split(labels, matches8, candidate_splits_of_4(lows))]

lowest_players(labels, matches8, lowest) ==
  SelectSeq(labels, LAMBDA p : match_count(matches8, p) = lowest)

match_counts(labels, matches8) ==
  [i \in 1..Len(labels) |-> match_count(matches8, labels[i])]

\* fault: no balancing match is added
no_9th_match(labels, matches8) == [err |-> FALSE, matches |-> matches8]

\* [err, matches]: err is the ValueError of the 5/6 distribution check
add_9th_match_balanced(labels, matches8) ==
  add_9th_from_counts(labels, matches8, match_counts(labels, matches8),
     lowest_players(labels, matches8, Min(Range(match_counts(labels, matches8)))))

\* fault: the last two labels, whether or not they are in last
last_two_labels(labels, last) == SortedPair(labels[Len(labels) - 1], labels[Len(labels)])

\* the two players that are not in the pair last, as a pair
repeat_partner(labels, last) ==
  LET remaining_players == SelectSeq(labels, LAMBDA x : x \notin Range(last))
  IN SortedPair(remaining_players[1], remaining_players[2])

\* the matches after the leftover loop ended in g: a pair still pending
\* plays the two players it does not hold
matches_after_leftovers(labels, first, g) ==
  IF Len(g.pending) > 0
  THEN first \o Append(g.extra, <<g.pending[1], repeat_partner(labels, g.pending[1])>>)
  ELSE first \o g.extra

nine_from_eight(labels, matches8) ==
  IF Len(matches8) # 8 THEN [err |-> TRUE, matches |-> matches8]
  ELSE add_9th_match_balanced(labels, matches8)

\* the body of schedule_2v2_labels once the pairing rounds are known
schedule_2v2_rounds(labels, rounds) ==
  IF Len(labels) \in {4, 5}
  THEN IF \E r \in 1..Len(rounds) : Len(rounds[r]) # 2
       THEN [err |-> TRUE, matches |-> <<>>]
       ELSE [err |-> FALSE,
             matches |-> [r \in 1..Len(rounds) |-> <<rounds[r][1], rounds[r][2]>>]]
  ELSE IF \E r \in 1..Len(rounds) : Len(rounds[r]) # 3
       THEN [err |-> TRUE, matches |-> <<>>]
       ELSE nine_from_eight(labels,
              matches_after_leftovers(labels,
                 [r \in 1..Len(rounds) |-> <<rounds[r][1], rounds[r][2]>>],
                 pair_leftovers([r \in 1..Len(rounds) |-> rounds[r][3]], <<>>)))

\* [err, matches]: err stands for a raised ValueError
schedule_2v2_labels(labels) ==
  IF Len(labels) < 4 \/ Len(labels) > 6 THEN [err |-> TRUE, matches |-> <<>>]
  ELSE schedule_2v2_rounds(labels, round_robin_pairings(labels))

\* ---------------------------------------------------- tournament_status.py
\* fault: every state has the same rank
flat_rank(state) == 0

state_rank(state) ==
  CASE state = "finished" -> 0
    [] state = "playing" -> 1
    [] state = "scheduled" -> 2
    [] OTHER -> 99

\* fault: a tournament with matches is never draft or done
status_always_live(min_rank, max_rank, count) ==
  IF count <= 0 THEN "draft" ELSE "live"

status_from_minmaxcount(min_rank, max_rank, count) ==
  IF count <= 0 \/ min_rank = None \/ max_rank = None THEN "draft"
  ELSE IF min_rank = 2 /\ max_rank = 2 THEN "draft"
  ELSE IF min_rank = 0 /\ max_rank = 0 THEN "done"
  ELSE "live"

\* ids of the match rows of one tournament in the match table ms
MatchesOf(ms, tid) == {id \in DOMAIN ms : ms[id].tournament_id = tid}

\* SELECT min(rank), max(rank), count(id) WHERE tournament_id = tid
compute_status_for_tournament(ms, tid) ==
  LET ids == MatchesOf(ms, tid)
      ranks == {state_rank(ms[id].state) : id \in ids}
  IN status_from_minmaxcount(IF ids = {} THEN None ELSE Min(ranks),
                             IF ids = {} THEN None ELSE Max(ranks),
                             Cardinality(ids))

\* fault: a status map without rows
empty_status_map(ms) == << >>

\* ... GROUP BY tournament_id: only tournaments that have matches
compute_status_map(ms) ==
  [tid \in {ms[id].tournament_id : id \in DOMAIN ms} |->
     compute_status_for_tournament(ms, tid)]

\* fault: a scan that never finds a live tournament
find_no_live_tournament_id(ms, current_tournament_id) == None

\* the first other tournament of the status map that is live, else None
find_other_live_tournament_id(ms, current_tournament_id) ==
  LET status_by_tid == compute_status_map(ms)
      live == {tid \in DOMAIN status_by_tid :
                 tid # current_tournament_id /\ status_by_tid[tid] = "live"}
  IN IF live = {} THEN None ELSE Min(live)

\* ------------------------------------------------------------- the store
VARIABLES
  tournaments,   \* tournament table: id -> [mode, status, players, labels]
  matches,       \* match table with both sides inline: id -> match row
  sessions       \* patch_match calls between their checks and their commit:
                 \* session id -> the rows the session holds for its commit

vars == <<tournaments, matches, sessions>>

\* the committed tables
Store(ts, ms) == [tournaments |-> ts, matches |-> ms]

Response(code, detail, other) == [code |-> code, detail |-> detail, other |-> other]
Ok == Response(200, "ok", None)

NewSide(pids) == [club_id |-> None, goals |-> 0, players |-> pids]

\* fault: a new match row that is already finished
NewFinishedMatch(tid, leg, order_index, team_a, team_b) ==
  [tournament_id |-> tid, leg |-> leg, order_index |-> order_index,
   state |-> "finished", started_at |-> None, finished_at |-> None,
   A |-> NewSide(team_a), B |-> NewSide(team_b)]

\* Match(tournament_id, leg, order_index, state="scheduled") with sides A and B
NewMatch(tid, leg, order_index, team_a, team_b) ==
  [tournament_id |-> tid, leg |-> leg, order_index |-> order_index,
   state |-> "scheduled", started_at |-> None, finished_at |-> None,
   A |-> NewSide(team_a), B |-> NewSide(team_b)]

\* Primary keys are opaque to the handlers.  The store hands the rows of
\* tournament tid the least unused keys of that tournament's own block of
\* MaxMatches keys, so that equal schedules carry equal keys, and the keys
\* after all blocks once a block is used up.
KeyBlock(tid) == ((tid - 1) * MaxMatches + 1)..(tid * MaxMatches)

RECURSIVE FreshIds(_, _, _)
FreshIds(used, k, tid) ==
  IF k = 0 THEN <<>>
  ELSE LET id == IF KeyBlock(tid) \ used # {}
                 THEN Min(KeyBlock(tid) \ used)
                 ELSE Max(used \cup {MaxTournaments * MaxMatches}) + 1
       IN <<id>> \o FreshIds(used \cup {id}, k - 1, tid)

\* ms without the rows in dead, plus one new row of tournament tid per element of rows
Replace(ms, dead, rows, tid) ==
  LET kept == DOMAIN ms \ dead
      ids == FreshIds(kept, Len(rows), tid)
      pos == [id \in Range(ids) |-> CHOOSE i \in 1..Len(ids) : ids[i] = id]
  IN [id \in kept \cup Range(ids) |-> IF id \in kept THEN ms[id] ELSE rows[pos[id]]]

\* match ids of a tournament, ORDER BY order_index
matches_sorted(ms, tid) ==
  SortBy(MatchesOf(ms, tid), [id \in MatchesOf(ms, tid) |-> ms[id].order_index])

Init ==
  /\ tournaments = << >>
  /\ matches = << >>
  /\ sessions = << >>

\* fault: the status column is left as it was
status_not_synced(ts, ms, tid) == ts

\* t.status = compute_status_for_tournament(s, tournament_id)
SyncStatus(ts, ms, tid) ==
  [ts EXCEPT ![tid].status = compute_status_for_tournament(ms, tid)]

\* ------------------------------------------------- routers/tournaments.py
\* POST /tournaments: the row is committed before player_ids is validated
create_tournament_result(ts, mode, player_ids) ==
  IF mode \notin Modes
  THEN [resp |-> Response(400, "mode", None), tournaments |-> ts]
  ELSE LET tid == Min({i \in 1..(Cardinality(DOMAIN ts) + 1) : i \notin DOMAIN ts})
           t == [mode |-> mode, status |-> "draft", players |-> <<>>, labels |-> <<>>]
           created == [i \in DOMAIN ts \cup {tid} |-> IF i = tid THEN t ELSE ts[i]]
       IN IF Range(player_ids) \subseteq PlayerIds
          THEN [resp |-> Ok,
                tournaments |-> [created EXCEPT ![tid].players = player_ids]]
          ELSE [resp |-> Response(400, "player_ids", None), tournaments |-> created]

create_tournament(mode, player_ids) ==
  /\ tournaments' = create_tournament_result(tournaments, mode, player_ids).tournaments
  /\ UNCHANGED <<matches, sessions>>

\* POST /tournaments with a body that carries auto_generate: the handler reads
\* name, mode, settings, player_ids and date only
create_tournament_body(ts, body) ==
  create_tournament_result(ts, body.mode, body.player_ids)

\* label_team_to_player_ids: the players behind the labels of one team
label_team_to_player_ids(team, label_to_name) ==
  {label_to_name[team[i]] : i \in 1..Len(team)}

\* POST /tournaments/{id}/generate
generate_schedule_result(ts, ms, tid, randomize, role, name_shuffle, match_shuffle) ==
  LET t == ts[tid]
      n == Len(t.players)
      status_now == compute_status_for_tournament(ms, tid)
      al == assign_labels(t.players, randomize, name_shuffle)
      labelled == [ts EXCEPT ![tid].labels = al.label_to_name]
      sched == IF t.mode = "1v1"
               THEN [err |-> FALSE, matches |-> schedule_1v1_labels(al.labels)]
               ELSE schedule_2v2_labels(al.labels)
      label_matches == IF randomize THEN shuffled(sched.matches, match_shuffle)
                       ELSE sched.matches
      rows == [i \in 1..Len(label_matches) |->
                 NewMatch(tid, 1, i - 1,
                          label_team_to_player_ids(label_matches[i][1], al.label_to_name),
                          label_team_to_player_ids(label_matches[i][2], al.label_to_name))]
      ms2 == Replace(ms, MatchesOf(ms, tid), rows, tid)
  IN IF status_now = "done" /\ role # "admin"
     THEN [resp |-> Response(403, "done", None), tournaments |-> ts, matches |-> ms]
     ELSE IF (t.mode = "1v1" /\ ~(3 <= n /\ n <= 5)) \/ (t.mode = "2v2" /\ ~(4 <= n /\ n <= 6))
     THEN [resp |-> Response(400, "players", None), tournaments |-> ts, matches |-> ms]
     ELSE IF sched.err
     THEN [resp |-> Response(400, "schedule", None), tournaments |-> labelled, matches |-> ms]
     ELSE [resp |-> Ok, tournaments |-> SyncStatus(labelled, ms2, tid), matches |-> ms2]

generate_schedule(tid, randomize, role, name_shuffle, match_shuffle) ==
  LET r == generate_schedule_result(tournaments, matches, tid, randomize, role,
                                    name_shuffle, match_shuffle)
  IN /\ tournaments' = r.tournaments
     /\ matches' = r.matches
     /\ UNCHANGED sessions

\* DELETE /tournaments/{id} (admin)
delete_tournament(tid) ==
  /\ tournaments' = [i \in DOMAIN tournaments \ {tid} |-> tournaments[i]]
  /\ matches' = [id \in DOMAIN matches \ MatchesOf(matches, tid) |-> matches[id]]
  /\ UNCHANGED sessions

\* PATCH /tournaments/{id}/reorder
reorder_result(ms, tid, match_ids, role) ==
  LET status_now == compute_status_for_tournament(ms, tid)
      sorted == matches_sorted(ms, tid)
      by_id == MatchesOf(ms, tid)
      fixed_prefix == SelectSeq(sorted, LAMBDA id : ms[id].state # "scheduled")
      ranks == [i \in 1..Len(match_ids) |-> state_rank(ms[match_ids[i]].state)]
      playing_count == Cardinality({i \in 1..Len(match_ids) :
                                      ms[match_ids[i]].state = "playing"})
      \* for idx, mid in enumerate(match_ids): by_id[mid].order_index = idx
      last_pos == [id \in by_id |-> Max({i \in 1..Len(match_ids) : match_ids[i] = id})]
  IN IF status_now = "done" /\ role # "admin"
     THEN [resp |-> Response(403, "done", None), matches |-> ms]
     ELSE IF match_ids = <<>>
     THEN [resp |-> Response(400, "match_ids", None), matches |-> ms]
     ELSE IF Range(match_ids) # by_id
     THEN [resp |-> Response(400, "match_ids", None), matches |-> ms]
     ELSE IF fixed_prefix # <<>>
             /\ SubSeq(match_ids, 1, Len(fixed_prefix)) # fixed_prefix
     THEN [resp |-> Response(409, "prefix", None), matches |-> ms]
     ELSE IF \E i \in 1..(Len(ranks) - 1) : ranks[i] > ranks[i + 1]
     THEN [resp |-> Response(409, "order", None), matches |-> ms]
     ELSE IF playing_count > 1
     THEN [resp |-> Response(409, "playing", None), matches |-> ms]
     ELSE [resp |-> Ok,
           matches |-> [id \in DOMAIN ms |->
                          IF id \in by_id
                          THEN [ms[id] EXCEPT !.order_index = last_pos[id] - 1]
                          ELSE ms[id]]]

reorder(tid, match_ids, role) ==
  LET r == reorder_result(matches, tid, match_ids, role)
  IN /\ matches' = r.matches
     /\ UNCHANGED <<tournaments, sessions>>

\* fault: the largest order index is never looked up
no_order_index(ms, tid) == -1

max_order_index(ms, tid) ==
  IF MatchesOf(ms, tid) = {} THEN -1
  ELSE Max({ms[id].order_index : id \in MatchesOf(ms, tid)})

LegOf(ms, tid, leg) == {id \in MatchesOf(ms, tid) : ms[id].leg = leg}

\* fault: a second leg that never counts as started
leg2_never_started(ms, tid) == FALSE

leg2_started(ms, tid) ==
  \E id \in LegOf(ms, tid, 2) :
     \/ ms[id].state # "scheduled"
     \/ ms[id].A.goals # 0 \/ ms[id].A.club_id # None
     \/ ms[id].B.goals # 0 \/ ms[id].B.club_id # None

\* fault: the signature with the two sides exchanged
mirrored_signature(m) == <<m.B.players, m.A.players>>

\* (sorted side-A player ids, sorted side-B player ids)
match_signature(m) == <<m.A.players, m.B.players>>

\* signatures of one leg, ORDER BY order_index
leg_sigs(ms, tid, leg) ==
  LET ids == SortBy(LegOf(ms, tid, leg), [id \in LegOf(ms, tid, leg) |-> ms[id].order_index])
  IN [i \in 1..Len(ids) |-> match_signature(ms[ids[i]])]

leg2_complete(leg1_sigs, leg2_sigs) ==
  Len(leg2_sigs) = Len(leg1_sigs) /\ Range(leg2_sigs) = Range(leg1_sigs)

\* PATCH /tournaments/{id}/second-leg
second_leg_result(ts, ms, tid, enabled, role) ==
  LET leg1_sigs == leg_sigs(ms, tid, 1)
      leg2_sigs == leg_sigs(ms, tid, 2)
      leg2_exists == LegOf(ms, tid, 2) # {}
      other_live == find_other_live_tournament_id(ms, tid)
      idx == max_order_index(ms, tid) + 1
      rows == [i \in 1..Len(leg1_sigs) |->
                 NewMatch(tid, 2, idx + i - 1, leg1_sigs[i][1], leg1_sigs[i][2])]
      added == Replace(ms, {}, rows, tid)
      removed == Replace(ms, LegOf(ms, tid, 2), <<>>, tid)
  IN IF ~enabled
     THEN IF ~leg2_exists
          THEN [resp |-> Response(200, "no second leg", None),
                tournaments |-> ts, matches |-> ms]
          ELSE IF leg2_started(ms, tid)
          THEN [resp |-> Response(403, "started", None),
                tournaments |-> ts, matches |-> ms]
          ELSE [resp |-> Response(200, "deleted", None),
                tournaments |-> SyncStatus(ts, removed, tid), matches |-> removed]
     ELSE IF leg2_started(ms, tid)
     THEN [resp |-> Response(403, "started", None), tournaments |-> ts, matches |-> ms]
     ELSE IF ~leg2_exists
     THEN IF other_live # None
          THEN [resp |-> Response(409, "live", other_live),
                tournaments |-> ts, matches |-> ms]
          ELSE [resp |-> Response(200, "created", None),
                tournaments |-> SyncStatus(ts, added, tid), matches |-> added]
     ELSE IF leg2_complete(leg1_sigs, leg2_sigs)
     THEN [resp |-> Response(200, "complete", None),
           tournaments |-> SyncStatus(ts, ms, tid), matches |-> ms]
     ELSE [resp |-> Response(409, "incomplete", None), tournaments |-> ts, matches |-> ms]

second_leg(tid, enabled, role) ==
  LET r == second_leg_result(tournaments, matches, tid, enabled, role)
  IN /\ tournaments' = r.tournaments
     /\ matches' = r.matches
     /\ UNCHANGED sessions

\* fault: every match row counts as untouched
always_untouched(m) == TRUE

\* a match row no request has touched since it was created
Untouched(m) ==
  /\ m.state = "scheduled"
  /\ m.started_at = None /\ m.finished_at = None
  /\ m.A.goals = 0 /\ m.B.goals = 0
  /\ m.A.club_id = None /\ m.B.club_id = None

\* POST /tournaments/{id}/reassign
reassign_2v2_result(ts, ms, tid, randomize_order, name_shuffle, match_shuffle) ==
  LET t == ts[tid]
      n == Len(t.players)
      old == MatchesOf(ms, tid)
      had_leg2 == \E id \in old : ms[id].leg = 2
      al == assign_labels(t.players, TRUE, name_shuffle)
      labelled == [ts EXCEPT ![tid].labels = al.label_to_name]
      sched == schedule_2v2_labels(al.labels)
      label_matches == IF randomize_order THEN shuffled(sched.matches, match_shuffle)
                       ELSE sched.matches
      k == Len(label_matches)
      leg1 == [i \in 1..k |->
                 NewMatch(tid, 1, i - 1,
                          label_team_to_player_ids(label_matches[i][1], al.label_to_name),
                          label_team_to_player_ids(label_matches[i][2], al.label_to_name))]
      leg2 == [i \in 1..k |->
                 NewMatch(tid, 2, k + i - 1,
                          label_team_to_player_ids(label_matches[i][1], al.label_to_name),
                          label_team_to_player_ids(label_matches[i][2], al.label_to_name))]
      ms2 == Replace(ms, old, IF had_leg2 THEN leg1 \o leg2 ELSE leg1, tid)
  IN IF t.mode # "2v2"
     THEN [resp |-> Response(409, "mode", None), tournaments |-> ts, matches |-> ms]
     ELSE IF old = {}
     THEN [resp |-> Response(409, "no schedule", None), tournaments |-> ts, matches |-> ms]
     ELSE IF \E id \in old : ~Untouched(ms[id])
     THEN [resp |-> Response(409, "touched", None), tournaments |-> ts, matches |-> ms]
     ELSE IF ~(4 <= n /\ n <= 6)
     THEN [resp |-> Response(400, "players", None), tournaments |-> ts, matches |-> ms]
     ELSE IF sched.err
     THEN [resp |-> Response(400, "schedule", None), tournaments |-> labelled, matches |-> ms]
     ELSE [resp |-> Ok, tournaments |-> SyncStatus(labelled, ms2, tid), matches |-> ms2]

reassign_2v2(tid, randomize_order, name_shuffle, match_shuffle) ==
  LET r == reassign_2v2_result(tournaments, matches, tid, randomize_order,
                               name_shuffle, match_shuffle)
  IN /\ tournaments' = r.tournaments
     /\ matches' = r.matches
     /\ UNCHANGED sessions

\* --------------------------------------------------- routers/matches.py
\* fault: no validation of the state order
order_never_checked(ms, tid) == "ok"

\* "ok", or the detail of the 409 that _validate_tournament_state_order raises
validate_tournament_state_order(ms, tid) ==
  LET sorted == matches_sorted(ms, tid)
      ranks == [i \in 1..Len(sorted) |-> state_rank(ms[sorted[i]].state)]
      playing_count == Cardinality({id \in MatchesOf(ms, tid) : ms[id].state = "playing"})
  IN IF \E i \in 1..(Len(ranks) - 1) : ranks[i] > ranks[i + 1] THEN "order"
     ELSE IF playing_count > 1 THEN "playing"
     ELSE "ok"

\* fault: every state patch stamps both timestamps with the clock reading
stamp_always(m, new_state, now) ==
  [m EXCEPT !.state = new_state, !.started_at = now, !.finished_at = now]

\* the timestamp bookkeeping of a state patch, then m.state = new_state
apply_state(m, new_state, now) ==
  LET m1 == IF new_state = "scheduled"
            THEN [m EXCEPT !.started_at = None, !.finished_at = None]
            ELSE m
      m2 == IF new_state = "playing"
            THEN [m1 EXCEPT !.finished_at = None,
                            !.started_at = IF @ = None THEN now ELSE @]
            ELSE m1
      m3 == IF new_state = "finished"
            THEN [m2 EXCEPT !.started_at = IF @ = None THEN now ELSE @,
                            !.finished_at = IF @ = None THEN now ELSE @]
            ELSE m2
  IN [m3 EXCEPT !.state = new_state]

\* club_id / goals of one side body applied to the side row
apply_side(side, sb) ==
  [side EXCEPT !.club_id = IF "club_id" \in sb.fields THEN sb.club_id ELSE @,
               !.goals = IF "goals" \in sb.fields THEN sb.goals ELSE @]

\* _club_exists would raise 400 for this side body
unknown_club(sb) ==
  "club_id" \in sb.fields /\ sb.club_id # None /\ sb.club_id \notin ClubIds

\* ORDER BY order_index DESC, id DESC ... first()
last_match_id(ms, tid) ==
  CHOOSE id \in MatchesOf(ms, tid) :
    \A o \in MatchesOf(ms, tid) :
       \/ ms[o].order_index < ms[id].order_index
       \/ (ms[o].order_index = ms[id].order_index /\ o <= id)

\* PATCH /matches/{id}.  body.fields is model_fields_set; the session's pending
\* changes (ms1, ms2, ms3) reach the store only through the final commit.
patch_match_result(ts, ms, mid, body, role, now) ==
  LET m == ms[mid]
      tid == m.tournament_id
      fields == body.fields
      rejected(code, detail, other) ==
        [resp |-> Response(code, detail, other), tournaments |-> ts, matches |-> ms]
      status_before == compute_status_for_tournament(ms, tid)
      m1 == IF "leg" \in fields THEN [m EXCEPT !.leg = body.leg] ELSE m
      m2 == IF "state" \in fields THEN apply_state(m1, body.state, now) ELSE m1
      ms2 == [ms EXCEPT ![mid] = m2]
      order == validate_tournament_state_order(ms2, tid)
      m3 == [m2 EXCEPT !.A = IF "sideA" \in fields THEN apply_side(@, body.sideA) ELSE @,
                       !.B = IF "sideB" \in fields THEN apply_side(@, body.sideB) ELSE @]
      ms3 == [ms EXCEPT ![mid] = m3]
      status_after == compute_status_for_tournament(ms3, tid)
      other_live == find_other_live_tournament_id(ms3, tid)
  IN IF status_before = "done" /\ role # "admin" /\ last_match_id(ms, tid) # mid
     THEN rejected(403, "done", None)
     ELSE IF status_before = "done" /\ role # "admin" /\ "leg" \in fields
     THEN rejected(403, "leg admin-only", None)
     ELSE IF "leg" \in fields /\ role # "admin"
     THEN rejected(403, "leg admin-only", None)
     ELSE IF "leg" \in fields /\ body.leg \notin {1, 2}
     THEN rejected(400, "leg", None)
     ELSE IF "leg" \in fields /\ m.state # "scheduled"
     THEN rejected(409, "leg of started match", None)
     ELSE IF "state" \in fields /\ body.state \notin States
     THEN rejected(400, "state", None)
     ELSE IF "state" \in fields /\ order # "ok"
     THEN rejected(409, order, None)
     ELSE IF ("sideA" \in fields /\ unknown_club(body.sideA))
             \/ ("sideB" \in fields /\ unknown_club(body.sideB))
     THEN rejected(400, "club_id", None)
     ELSE IF status_after = "live" /\ other_live # None
     THEN rejected(409, "live", other_live)
     ELSE [resp |-> Ok,
           tournaments |-> [ts EXCEPT ![tid].status = status_after],
           matches |-> ms3]

patch_match(mid, body, role, now) ==
  LET r == patch_match_result(tournaments, matches, mid, body, role, now)
  IN /\ tournaments' = r.tournaments
     /\ matches' = r.matches
     /\ UNCHANGED sessions

\* PATCH /matches/{id}/swap-sides: side A becomes B and B becomes A
swap_sides_result(ms, mid, role) ==
  LET m == ms[mid]
      status_now == compute_status_for_tournament(ms, m.tournament_id)
  IN IF status_now = "done" /\ role # "admin"
     THEN [resp |-> Response(403, "done", None), matches |-> ms]
     ELSE [resp |-> Ok, matches |-> [ms EXCEPT ![mid] = [m EXCEPT !.A = m.B, !.B = m.A]]]

swap_sides(mid, role) ==
  LET r == swap_sides_result(matches, mid, role)
  IN /\ matches' = r.matches
     /\ UNCHANGED <<tournaments, sessions>>

\* ---------------------------------------- patch_match, checks and commit
\* patch_match reads the store, changes its match in its own session, checks
\* the order, the status and the other tournaments, and only then commits.
\* Nothing in the handler keeps another session from reading or committing
\* in between.  The rows a session holds for its commit: its match with its
\* sides, and the status column of the match's tournament.
patch_match_writes(r, mid) ==
  [mid |-> mid, tid |-> r.matches[mid].tournament_id, match |-> r.matches[mid],
   status |-> r.tournaments[r.matches[mid].tournament_id].status]

\* fault: the commit writes nothing
writes_dropped(ts, ms, w) == Store(ts, ms)

\* s.commit(): the held rows are written onto the store as it is then
commit_writes(ts, ms, w) ==
  Store([ts EXCEPT ![w.tid].status = w.status], [ms EXCEPT ![w.mid] = w.match])

\* the handler up to its commit, for a request that passes its checks (a
\* rejected request ends there and leaves store and sessions as they were)
patch_match_begin(mid, body, role, now) ==
  LET r == patch_match_result(tournaments, matches, mid, body, role, now)
      sid == Min((1..(Cardinality(DOMAIN sessions) + 1)) \ DOMAIN sessions)
  IN /\ r.resp.code = 200
     /\ sessions' = [i \in DOMAIN sessions \cup {sid} |->
                       IF i = sid THEN patch_match_writes(r, mid) ELSE sessions[i]]
     /\ UNCHANGED <<tournaments, matches>>

\* the handler's s.commit()
patch_match_commit(sid) ==
  LET after == commit_writes(tournaments, matches, sessions[sid])
  IN /\ tournaments' = after.tournaments
     /\ matches' = after.matches
     /\ sessions' = [i \in DOMAIN sessions \ {sid} |-> sessions[i]]

\* ------------------------------------------------ the handlers' commits
\* generate_schedule, reassign_2v2 and second_leg write through several
\* s.commit() calls.  The *_commits operators list the store as it stands
\* after each commit of one call, in order; the last element is the store the
\* complete call leaves.  The commits inside one match insert (the match row,
\* side A, side B, the players) are taken together.

\* _bulk_delete_matches: one commit, and none when there is nothing to delete
delete_commits(ts, ms, dead, tid) ==
  IF dead = {} THEN <<>> ELSE <<Store(ts, Replace(ms, dead, <<>>, tid))>>

\* one commit per inserted match, the rows in dead being gone already
insert_commits(ts, ms, dead, rows, tid) ==
  [k \in 1..Len(rows) |-> Store(ts, Replace(ms, dead, SubSeq(rows, 1, k), tid))]

\* the leg-1 rows generate_schedule inserts
generate_rows(ts, tid, randomize, name_shuffle, match_shuffle) ==
  LET al == assign_labels(ts[tid].players, randomize, name_shuffle)
      sched == IF ts[tid].mode = "1v1" THEN schedule_1v1_labels(al.labels)
               ELSE schedule_2v2_labels(al.labels).matches
      label_matches == IF randomize THEN shuffled(sched, match_shuffle) ELSE sched
  IN [i \in 1..Len(label_matches) |->
        NewMatch(tid, 1, i - 1,
                 label_team_to_player_ids(label_matches[i][1], al.label_to_name),
                 label_team_to_player_ids(label_matches[i][2], al.label_to_name))]

\* commits of POST /generate: the label map (line 462), the delete, one per
\* match, the status
generate_schedule_commits(ts, ms, tid, randomize, role, name_shuffle, match_shuffle) ==
  LET r == generate_schedule_result(ts, ms, tid, randomize, role, name_shuffle, match_shuffle)
      labelled == [ts EXCEPT ![tid].labels =
                     assign_labels(ts[tid].players, randomize, name_shuffle).label_to_name]
  IN IF r.resp.code = 200
     THEN <<Store(labelled, ms)>>
          \o delete_commits(labelled, ms, MatchesOf(ms, tid), tid)
          \o insert_commits(labelled, ms, MatchesOf(ms, tid),
                            generate_rows(ts, tid, randomize, name_shuffle, match_shuffle), tid)
          \o <<Store(r.tournaments, r.matches)>>
     ELSE IF r.resp.detail = "schedule" THEN <<Store(labelled, ms)>>
     ELSE <<>>

\* the leg-1 rows, then the leg-2 rows if a second leg existed, of reassign_2v2
reassign_rows(ts, ms, tid, randomize_order, name_shuffle, match_shuffle) ==
  LET leg1 == generate_rows(ts, tid, TRUE, name_shuffle,
                            IF randomize_order THEN match_shuffle ELSE 0)
      leg2 == [i \in 1..Len(leg1) |->
                 [leg1[i] EXCEPT !.leg = 2, !.order_index = Len(leg1) + i - 1]]
  IN IF LegOf(ms, tid, 2) # {} THEN leg1 \o leg2 ELSE leg1

\* commits of POST /reassign: the label map (line 989), the delete, one per
\* match, the status
reassign_2v2_commits(ts, ms, tid, randomize_order, name_shuffle, match_shuffle) ==
  LET r == reassign_2v2_result(ts, ms, tid, randomize_order, name_shuffle, match_shuffle)
      labelled == [ts EXCEPT ![tid].labels =
                     assign_labels(ts[tid].players, TRUE, name_shuffle).label_to_name]
  IN IF r.resp.code = 200
     THEN <<Store(labelled, ms)>>
          \o delete_commits(labelled, ms, MatchesOf(ms, tid), tid)
          \o insert_commits(labelled, ms, MatchesOf(ms, tid),
                            reassign_rows(ts, ms, tid, randomize_order, name_shuffle,
                                          match_shuffle), tid)
          \o <<Store(r.tournaments, r.matches)>>
     ELSE IF r.resp.detail = "schedule" THEN <<Store(labelled, ms)>>
     ELSE <<>>

\* the leg-2 rows a second-leg enable inserts
second_leg_rows(ms, tid) ==
  [i \in 1..Len(leg_sigs(ms, tid, 1)) |->
     NewMatch(tid, 2, max_order_index(ms, tid) + i,
              leg_sigs(ms, tid, 1)[i][1], leg_sigs(ms, tid, 1)[i][2])]

\* commits of PATCH /second-leg: one per created match or the delete, then
\* the status
second_leg_commits(ts, ms, tid, enabled, role) ==
  LET r == second_leg_result(ts, ms, tid, enabled, role)
  IN IF r.resp.detail = "created"
     THEN insert_commits(ts, ms, {}, second_leg_rows(ms, tid), tid)
          \o <<Store(r.tournaments, r.matches)>>
     ELSE IF r.resp.detail = "deleted"
     THEN delete_commits(ts, ms, LegOf(ms, tid, 2), tid)
          \o <<Store(r.tournaments, r.matches)>>
     ELSE IF r.resp.detail = "complete" THEN <<Store(r.tournaments, r.matches)>>
     ELSE <<>>

\* a call that ends, by completion or by a failure, after its k-th commit
ends_after_commit(commits, k) ==
  /\ k \in 1..Len(commits)
  /\ tournaments' = commits[k].tournaments
  /\ matches' = commits[k].matches
  /\ UNCHANGED sessions

\* ------------------------------------------------------- request inputs
NoSide == [fields |-> {}, club_id |-> None, goals |-> 0]
SideBody(fields, club_id, goals) == [fields |-> fields, club_id |-> club_id, goals |-> goals]
Body(fields, state, leg, sideA, sideB) ==
  [fields |-> fields, state |-> state, leg |-> leg, sideA |-> sideA, sideB |-> sideB]

StateBodies == {Body({"state"}, st, 1, NoSide, NoSide) : st \in States}
BadBodies == {Body({"state"}, "paused", 1, NoSide, NoSide),
              Body({"leg"}, "scheduled", 3, NoSide, NoSide),
              Body({"sideB"}, "scheduled", 1, NoSide, SideBody({"club_id"}, NumClubs + 1, 0))}
LegBodies == {Body({"leg"}, "scheduled", leg, NoSide, NoSide) : leg \in 1..2}
\* a result is entered on side A (goals and club), or taken back
SideBodies ==
  {Body({"sideA"}, "scheduled", 1, SideBody({"club_id", "goals"}, 1, 1), NoSide),
   Body({"sideA"}, "scheduled", 1, SideBody({"club_id", "goals"}, None, 0), NoSide)}
\* a state patch that carries both sides' goals, as the clients send it
FullBodies ==
  {Body({"state", "sideA", "sideB"}, st, 1,
        SideBody({"goals"}, None, 1), SideBody({"goals"}, None, 0)) : st \in States}

\* (mode, player_ids) of the create requests; NumPlayers + 1 is no player id
CreateInputs ==
  { <<"1v1", <<1, 2, 3>> >>, <<"2v2", <<1, 2, 3, 4>> >>,
    <<"2v2", <<1, 2, 3>> >>, <<"1v1", <<1, 2, NumPlayers + 1>> >>,
    <<"3v3", <<1, 2, 3>> >> }

\* the reorder requests for a tournament whose current order is cur: two
\* neighbours among the last MaxReorderSpan + 1 swapped, cur itself, cur
\* without its first id
SwapAt(cur, p) ==
  [i \in 1..Len(cur) |-> IF i = p THEN cur[p + 1] ELSE IF i = p + 1 THEN cur[p] ELSE cur[i]]
ReorderInputs(cur) ==
  {SwapAt(cur, p) : p \in {q \in 1..(Len(cur) - 1) : q >= Len(cur) - MaxReorderSpan}}
  \cup {cur} \cup (IF cur = <<>> THEN {} ELSE {Tail(cur)})

\* ------------------------------------------------- the store (Spec)
\* Up to MaxTournaments 2v2 tournaments of four players; the clock reads 1.
Create ==
  /\ Cardinality(DOMAIN tournaments) < MaxTournaments
  /\ create_tournament("2v2", <<1, 2, 3, 4>>)
Delete == \E tid \in DOMAIN tournaments : delete_tournament(tid)
Generate ==
  \E tid \in DOMAIN tournaments, role \in Roles :
     generate_schedule(tid, FALSE, role, 0, 0)
Reassign ==
  \E tid \in DOMAIN tournaments : reassign_2v2(tid, FALSE, 0, 0)
Reorder ==
  \E tid \in DOMAIN tournaments, role \in Roles :
    \E match_ids \in ReorderInputs(matches_sorted(matches, tid)) :
       reorder(tid, match_ids, role)
SecondLeg ==
  \E tid \in DOMAIN tournaments, enabled \in BOOLEAN, role \in Roles :
     second_leg(tid, enabled, role)
PatchState ==
  \E mid \in DOMAIN matches, body \in StateBodies, role \in Roles :
     patch_match(mid, body, role, 1)
PatchLeg ==
  \E mid \in DOMAIN matches \cap (1..MaxLegTarget), body \in LegBodies, role \in Roles :
     patch_match(mid, body, role, 1)
PatchSide ==
  \E mid \in DOMAIN matches \cap (1..MaxSideTarget), body \in SideBodies, role \in Roles :
     patch_match(mid, body, role, 1)
SwapSides ==
  \E mid \in DOMAIN matches \cap (1..MaxSideTarget), role \in Roles :
     swap_sides(mid, role)

Next ==
  \/ Create
  \/ Delete
  \/ Generate
  \/ Reassign
  \/ Reorder
  \/ SecondLeg
  \/ PatchState
  \/ SwapSides

Spec == Init /\ [][Next]_vars

\* ------------------------------------------ one tournament (SpecT)
\* A single tournament of either mode, with the malformed requests, the
\* admin's leg patches and the side patches.
CreateAny ==
  /\ DOMAIN tournaments = {}
  /\ \E inp \in CreateInputs : create_tournament(inp[1], inp[2])
GenerateAny ==
  \E tid \in DOMAIN tournaments, randomize \in BOOLEAN, role \in Roles :
    \E name_shuffle \in ShuffleOutcomes, match_shuffle \in ShuffleOutcomes :
       generate_schedule(tid, randomize, role, name_shuffle, match_shuffle)
ReassignAny ==
  \E tid \in DOMAIN tournaments, randomize_order \in BOOLEAN :
    \E name_shuffle \in ShuffleOutcomes, match_shuffle \in ShuffleOutcomes :
       reassign_2v2(tid, randomize_order, name_shuffle, match_shuffle)
PatchBad ==
  \E mid \in DOMAIN matches, body \in BadBodies, role \in Roles :
     patch_match(mid, body, role, 1)

NextT ==
  \/ CreateAny
  \/ Delete
  \/ Generate
  \/ Reassign
  \/ Reorder
  \/ SecondLeg
  \/ PatchState
  \/ PatchBad
  \/ PatchLeg
  \/ PatchSide
  \/ SwapSides

SpecT == Init /\ [][NextT]_vars

\* ------------------------------------------ the clock (SpecClock)
\* One tournament without a second leg, its schedule shuffled or not;
\* datetime.utcnow() reads 1..MaxTime and the state patches may carry both
\* sides' goals.
PatchClock ==
  \E mid \in DOMAIN matches, body \in StateBodies \cup FullBodies, role \in Roles :
    \E now \in 1..MaxTime : patch_match(mid, body, role, now)

NextClock ==
  \/ CreateAny
  \/ Delete
  \/ GenerateAny
  \/ ReassignAny
  \/ PatchClock

SpecClock == Init /\ [][NextClock]_vars

\* ------------------------------------- the status deriver (SpecStatus)
\* compute_status_for_tournament over every combination of match states:
\* one tournament whose match table holds up to MaxStatusMatches rows, each
\* in any state and in any order; the handlers' status sync stores the status.
InitStatus ==
  /\ tournaments = create_tournament_result(<< >>, "1v1", <<1, 2, 3>>).tournaments
  /\ \E n \in 0..MaxStatusMatches :
       \E sts \in [1..n -> States] :
          matches = [i \in 1..n |-> [NewMatch(1, 1, i - 1, {1}, {2}) EXCEPT !.state = sts[i]]]
  /\ sessions = << >>

StoreStatus ==
  \E tid \in DOMAIN tournaments :
     /\ tournaments' = SyncStatus(tournaments, matches, tid)
     /\ UNCHANGED <<matches, sessions>>

NextStatus ==
  \/ StoreStatus

SpecStatus == InitStatus /\ [][NextStatus]_vars

\* ------------------------------------------- the two legs (SpecLeg)
\* One 1v1 tournament of three players that is never started: an admin moves
\* any match to the other leg, and an editor enables and disables the second
\* leg as long as the order indices stay below MaxLegMatches.
CreateOne ==
  /\ DOMAIN tournaments = {}
  /\ create_tournament("1v1", <<1, 2, 3>>)
GenerateOne ==
  \E tid \in DOMAIN tournaments : generate_schedule(tid, FALSE, "editor", 0, 0)
PatchLegAny ==
  \E mid \in DOMAIN matches :
     patch_match(mid, Body({"leg"}, "scheduled", 3 - matches[mid].leg, NoSide, NoSide),
                 "admin", 1)
SecondLegCapped ==
  \E tid \in DOMAIN tournaments, enabled \in BOOLEAN :
     /\ enabled =>
          max_order_index(matches, tid) + Cardinality(LegOf(matches, tid, 1))
            < MaxLegMatches
     /\ second_leg(tid, enabled, "editor")

NextLeg ==
  \/ CreateOne
  \/ GenerateOne
  \/ PatchLegAny
  \/ SecondLegCapped

SpecLeg == Init /\ [][NextLeg]_vars

\* ------------------------------------------ the commits (SpecCommit)
\* One 2v2 tournament of four players.  A generate, reassign or second-leg
\* call runs to its end or fails after any of its commits (a database error,
\* the end of the server process); matches are played in between.
MaxCommits == 9          \* commits of one call: label map, delete, 2 x 3 matches, status

CreateTeams ==
  /\ DOMAIN tournaments = {}
  /\ create_tournament("2v2", <<1, 2, 3, 4>>)
GenerateFails ==
  \E tid \in DOMAIN tournaments, randomize \in BOOLEAN, k \in 1..MaxCommits :
    \E name_shuffle \in ShuffleOutcomes, match_shuffle \in ShuffleOutcomes :
       ends_after_commit(generate_schedule_commits(tournaments, matches, tid, randomize,
                                                   "editor", name_shuffle, match_shuffle), k)
ReassignFails ==
  \E tid \in DOMAIN tournaments, randomize_order \in BOOLEAN, k \in 1..MaxCommits :
    \E name_shuffle \in ShuffleOutcomes, match_shuffle \in ShuffleOutcomes :
       ends_after_commit(reassign_2v2_commits(tournaments, matches, tid, randomize_order,
                                              name_shuffle, match_shuffle), k)
SecondLegFails ==
  \E tid \in DOMAIN tournaments, enabled \in BOOLEAN, k \in 1..MaxCommits :
     ends_after_commit(second_leg_commits(tournaments, matches, tid, enabled, "editor"), k)

NextCommit ==
  \/ CreateTeams
  \/ GenerateFails
  \/ ReassignFails
  \/ SecondLegFails
  \/ PatchState

SpecCommit == Init /\ [][NextCommit]_vars

\* ------------------------------------------ the order (SpecOrder)
\* One 2v2 tournament of four players whose reorder requests also name an
\* id twice or name an id that is no match, in lists of up to MaxListLen
\* ids; the order indices stay below MaxLegMatches.
MaxListLen == 4          \* longest list that names an id twice or a foreign id
InsertAt(s, p, x) == SubSeq(s, 1, p - 1) \o <<x>> \o SubSeq(s, p, Len(s))

\* match_ids of the reorder requests for the current order cur: those of
\* ReorderInputs, cur with one of its ids repeated at any place, and cur
\* followed by 0, which is no match id
ListInputs(cur) ==
  ReorderInputs(cur)
  \cup {l \in {InsertAt(cur, p, cur[i]) : p \in 1..(Len(cur) + 1), i \in 1..Len(cur)}
               \cup {Append(cur, 0)} : Len(l) <= MaxListLen}

ReorderList ==
  \E tid \in DOMAIN tournaments, role \in Roles :
    \E match_ids \in ListInputs(matches_sorted(matches, tid)) :
       reorder(tid, match_ids, role)

NextOrder ==
  \/ CreateTeams
  \/ Generate
  \/ Reassign
  \/ PatchState
  \/ ReorderList
  \/ SecondLegCapped

SpecOrder == Init /\ [][NextOrder]_vars

\* ------------------------------------------ the schedulers (SpecSched)
\* One tournament of either mode whose players stand in any order (up to
\* MaxOrderedLabels players; beyond that in the order 1..n): schedules are
\* generated and reassigned, shuffled or not, with and without second leg.
RECURSIVE Orderings(_)
Orderings(S) ==
  IF S = {} THEN {<<>>}
  ELSE UNION {{<<x>> \o o : o \in Orderings(S \ {x})} : x \in S}

Rosters(mode) ==
  UNION {IF n <= MaxOrderedLabels THEN Orderings(1..n) ELSE {[i \in 1..n |-> i]} :
           n \in IF mode = "1v1" THEN 3..5 ELSE 4..6}

InitSched ==
  /\ \E mode \in Modes :
       \E player_ids \in Rosters(mode) :
          tournaments = create_tournament_result(<< >>, mode, player_ids).tournaments
  /\ matches = << >>
  /\ sessions = << >>

SecondLegEditor ==
  \E tid \in DOMAIN tournaments, enabled \in BOOLEAN : second_leg(tid, enabled, "editor")

NextSched ==
  \/ GenerateAny
  \/ ReassignAny
  \/ SecondLegEditor

SpecSched == InitSched /\ [][NextSched]_vars

\* ------------------------------------------ the label orders (SpecLabels)
\* One 2v2 tournament of four, five or six players in every order of the
\* roster; an editor generates the schedule without shuffling.
InitLabels ==
  /\ \E n \in 4..6 :
       \E player_ids \in Orderings(1..n) :
          tournaments = create_tournament_result(<< >>, "2v2", player_ids).tournaments
  /\ matches = << >>
  /\ sessions = << >>

NextLabels ==
  \/ GenerateOne

SpecLabels == InitLabels /\ [][NextLabels]_vars

\* ------------------------------------- overlapping patches (SpecRace)
\* Two 2v2 tournaments of four players; up to MaxSessions patch_match calls
\* of an editor are between their checks and their commit at the same time.
MaxSessions == 2

GenerateIdle ==
  /\ sessions = << >>
  /\ Generate
BeginPatch ==
  /\ Cardinality(DOMAIN sessions) < MaxSessions
  /\ \E mid \in DOMAIN matches, body \in StateBodies :
        patch_match_begin(mid, body, "editor", 1)
CommitPatch == \E sid \in DOMAIN sessions : patch_match_commit(sid)

NextRace ==
  \/ Create
  \/ GenerateIdle
  \/ BeginPatch
  \/ CommitPatch

SpecRace == Init /\ [][NextRace]_vars

\* ================================================================ properties
\* rank of a state in the schedule order: finished, then playing, then scheduled
Rank(st) == CASE st = "finished" -> 0 [] st = "playing" -> 1 [] st = "scheduled" -> 2

\* the order-rank rule over the matches of tournament tid in table ms
OrderRankOK(ms, tid) ==
  /\ \A x, y \in MatchesOf(ms, tid) :
       ms[x].order_index < ms[y].order_index => Rank(ms[x].state) <= Rank(ms[y].state)
  /\ Cardinality({x \in MatchesOf(ms, tid) : ms[x].state = "playing"}) <= 1

LiveTournaments(ms) ==
  {tid \in DOMAIN tournaments : compute_status_for_tournament(ms, tid) = "live"}

\* a request of this role gets past the done-tournament block of patch_match
MayEdit(mid, role) ==
  \/ role = "admin"
  \/ compute_status_for_tournament(matches, matches[mid].tournament_id) # "done"
  \/ mid = last_match_id(matches, matches[mid].tournament_id)

StateBody(st) == Body({"state"}, st, 1, NoSide, NoSide)

\* ConflictError of the error taxonomy: the 409 responses, and the 403 of a
\* second leg that has already started
IsConflict(resp) == resp.code = 409 \/ (resp.code = 403 /\ resp.detail = "started")

\* number of matches of one leg with signature sig (A roster, B roster)
SigCount(ms, tid, leg, sig) ==
  Cardinality({id \in LegOf(ms, tid, leg) : <<ms[id].A.players, ms[id].B.players>> = sig})

\* leg 2 holds the same multiset of (A roster, B roster) pairs as leg 1
MirrorOfLeg1(ms, tid) ==
  \A id \in MatchesOf(ms, tid) :
     LET sig == <<ms[id].A.players, ms[id].B.players>>
     IN SigCount(ms, tid, 1, sig) = SigCount(ms, tid, 2, sig)

\* ---- C1: in every reachable state of the store at most one tournament has
\* derived status live.
C1_SingleLive == Cardinality(LiveTournaments(matches)) <= 1

\* one tournament is live and the single-live rule is what keeps a state
\* patch on a match of another tournament out
C1_Witness ==
  \E a \in LiveTournaments(matches), mid \in DOMAIN matches, st \in States :
     /\ matches[mid].tournament_id # a
     /\ patch_match_result(tournaments, matches, mid, StateBody(st), "admin", 1).resp
          = Response(409, "live", a)

\* ---- C2: while tournament a is live, a patch_match on a match of another
\* tournament b that passes the permission and order checks and would make b
\* live is answered 409 naming a, and it leaves both tables as they were.
C2_Case(a, mid, body, role) ==
  LET b == matches[mid].tournament_id
      after == [matches EXCEPT ![mid].state = body.state]
  IN /\ a # b
     /\ a \in LiveTournaments(matches)
     /\ compute_status_for_tournament(after, b) = "live"
     /\ OrderRankOK(after, b)
     /\ MayEdit(mid, role)

C4_SecondLegAllOrNothing ==
  \A tid \in DOMAIN tournaments :
     LegOf(matches, tid, 2) = {} \/ MirrorOfLeg1(matches, tid)

\* ---- C5: the derived status of a tournament is draft when it has no match
\* or only scheduled ones, done when it has matches and all are finished, and
\* live for every other combination of match states.
C5_DeriveStatus ==
  \A tid \in DOMAIN tournaments :
     LET sts == {matches[id].state : id \in MatchesOf(matches, tid)}
     IN compute_status_for_tournament(matches, tid) =
          IF sts = {} \/ sts = {"scheduled"} THEN "draft"
          ELSE IF sts = {"finished"} THEN "done"
          ELSE "live"

\* a scheduled match ahead of a finished one, and live stored for it
C5_Witness ==
  /\ 1 \in DOMAIN tournaments /\ tournaments[1].status = "live"
  /\ {1, 2} \subseteq DOMAIN matches
  /\ matches[1].state = "scheduled" /\ matches[2].state = "finished"
  /\ \A id \in DOMAIN matches : matches[id].state # "playing"

\* ---- C6: an admin's patch_match of a match to any of the three states is
\* accepted exactly when the store with that match in the new state
\* satisfies the order-rank rule for the tournament and has at most one live
\* tournament; an accepted patch puts the match in the new state.
C6_StatePatchAccepted ==
  \A mid \in DOMAIN matches, st \in States :
     LET tid == matches[mid].tournament_id
         after == [matches EXCEPT ![mid].state = st]
         r == patch_match_result(tournaments, matches, mid, StateBody(st), "admin", 1)
     IN /\ (r.resp.code = 200) <=>
             (OrderRankOK(after, tid) /\ Cardinality(LiveTournaments(after)) <= 1)
        /\ r.resp.code = 200 => r.matches[mid].state = st
        /\ r.resp.code # 200 => r.matches = matches

\* [finished, playing, scheduled]: the middle match may go back to scheduled,
\* the third may not be finished; in another tournament a start is refused
\* for the single-live rule alone
C6_Witness ==
  \E x, y, z \in DOMAIN matches, w \in DOMAIN matches :
     /\ matches[x].tournament_id = matches[y].tournament_id
     /\ matches[y].tournament_id = matches[z].tournament_id
     /\ matches[x].order_index < matches[y].order_index
     /\ matches[y].order_index < matches[z].order_index
     /\ matches[x].state = "finished"
     /\ matches[y].state = "playing"
     /\ matches[z].state = "scheduled"
     /\ patch_match_result(tournaments, matches, y, StateBody("scheduled"), "admin", 1).resp.code = 200
     /\ patch_match_result(tournaments, matches, z, StateBody("finished"), "admin", 1).resp.code = 409
     /\ matches[w].tournament_id # matches[x].tournament_id
     /\ patch_match_result(tournaments, matches, w, StateBody("playing"), "admin", 1).resp.detail = "live"

\* ---- C7: an accepted state patch read at clock value now leaves these
\* timestamps: to scheduled, none; to playing, no finish and the old start
\* or, if there was none, now; to finished, the old start and the old finish
\* or, where there was none, now.
C7_Timestamps ==
  \A mid \in DOMAIN matches, body \in StateBodies \cup FullBodies, role \in Roles :
    \A now \in 1..MaxTime :
       LET r == patch_match_result(tournaments, matches, mid, body, role, now)
           old == matches[mid]
           new == r.matches[mid]
           keep(t) == IF t = None THEN now ELSE t
       IN r.resp.code = 200 =>
            /\ new.state = body.state
            /\ body.state = "scheduled" =>
                 new.started_at = None /\ new.finished_at = None
            /\ body.state = "playing" =>
                 new.started_at = keep(old.started_at) /\ new.finished_at = None
            /\ body.state = "finished" =>
                 /\ new.started_at = keep(old.started_at)
                 /\ new.finished_at = keep(old.finished_at)

\* a match started at the first clock reading and finished at the last, next
\* to one that is playing since the last reading; the finished one may be
\* reopened then
C7_Witness ==
  \E x, y \in DOMAIN matches :
     /\ matches[x].state = "finished"
     /\ matches[x].started_at = 1 /\ matches[x].finished_at = MaxTime
     /\ matches[y].state = "scheduled"
     /\ patch_match_result(tournaments, matches, x, StateBody("playing"), "editor", MaxTime).resp.code = 200
     /\ patch_match_result(tournaments, matches, y, StateBody("finished"), "editor", MaxTime).resp.code = 409

\* ---- C8: an accepted second-leg enable on a tournament without leg-2
\* matches leaves every existing match as it was and adds, for the k-th
\* leg-1 match in order, one leg-2 match with the same side-A and side-B
\* rosters, scheduled, without goals, club or timestamps, at order index
\* (old maximum) + k; it adds nothing else.
C8_SecondLegCreated ==
  \A tid \in DOMAIN tournaments, role \in Roles :
     LET r == second_leg_result(tournaments, matches, tid, TRUE, role)
         leg1 == LegOf(matches, tid, 1)
         top == IF MatchesOf(matches, tid) = {} THEN -1
                ELSE Max({matches[id].order_index : id \in MatchesOf(matches, tid)})
         \* position of a leg-1 match within leg 1, from 1
         nth(id) == Cardinality({o \in leg1 : matches[o].order_index <= matches[id].order_index})
         added == DOMAIN r.matches \ DOMAIN matches
     IN (LegOf(matches, tid, 2) = {} /\ r.resp.code = 200) =>
          /\ \A id \in DOMAIN matches : id \in DOMAIN r.matches /\ r.matches[id] = matches[id]
          /\ Cardinality(added) = Cardinality(leg1)
          /\ \A id \in leg1 :
               \E n \in added :
                  r.matches[n] = [tournament_id |-> tid, leg |-> 2,
                                  order_index |-> top + nth(id),
                                  state |-> "scheduled",
                                  started_at |-> None, finished_at |-> None,
                                  A |-> [club_id |-> None, goals |-> 0,
                                         players |-> matches[id].A.players],
                                  B |-> [club_id |-> None, goals |-> 0,
                                         players |-> matches[id].B.players]]

\* an enable is accepted for a first leg that was reordered, had the sides of
\* a match swapped and has a result entered
C8_Witness ==
  \E tid \in DOMAIN tournaments :
     /\ LegOf(matches, tid, 2) = {}
     /\ second_leg_result(tournaments, matches, tid, TRUE, "editor").resp.detail = "created"
     /\ \E x, y \in LegOf(matches, tid, 1) :
          /\ x < y /\ matches[x].order_index > matches[y].order_index
     /\ \E x \in LegOf(matches, tid, 1) : matches[x].A.goals > 0
     /\ tournaments[tid].mode = "1v1"
     /\ \E x \in LegOf(matches, tid, 1) :
          \E p \in matches[x].A.players, q \in matches[x].B.players : p > q

\* ---- C9: a second-leg enable on a tournament that is done and has no leg-2
\* match is accepted and makes the tournament live when no other tournament
\* is live; when another one is, it is answered 409 and the tables stay as
\* they were.
C9_Case(tid) ==
  /\ compute_status_for_tournament(matches, tid) = "done"
  /\ LegOf(matches, tid, 2) = {}

C9_EnableRevives ==
  \A tid \in DOMAIN tournaments, role \in Roles :
     LET r == second_leg_result(tournaments, matches, tid, TRUE, role)
     IN C9_Case(tid) =>
          IF LiveTournaments(matches) = {}
          THEN /\ r.resp.code = 200
               /\ compute_status_for_tournament(r.matches, tid) = "live"
               /\ r.tournaments[tid].status = "live"
               /\ LegOf(r.matches, tid, 2) # {}
          ELSE /\ r.resp.code = 409
               /\ r.resp.other \in LiveTournaments(matches)
               /\ r.matches = matches
               /\ r.tournaments = tournaments

\* a done tournament without second leg next to a live one, and a tournament
\* that a second leg has brought back from done
C9_Witness ==
  \/ \E tid \in DOMAIN tournaments : C9_Case(tid) /\ LiveTournaments(matches) # {}
  \/ \E tid \in DOMAIN tournaments :
        /\ LegOf(matches, tid, 1) # {}
        /\ \A id \in LegOf(matches, tid, 1) : matches[id].state = "finished"
        /\ LegOf(matches, tid, 2) # {}
        /\ \A id \in LegOf(matches, tid, 2) : Untouched(matches[id])
        /\ tournaments[tid].status = "live"

\* ---- C10: a second-leg enable on a tournament whose leg 2 is a complete
\* mirror of leg 1 and not started changes no table of matches; on a
\* tournament whose leg 2 exists without being a complete mirror it is
\* answered with a conflict and changes nothing.
C10_EnableIdempotent ==
  \A tid \in DOMAIN tournaments, role \in Roles :
     LET r == second_leg_result(tournaments, matches, tid, TRUE, role)
     IN LegOf(matches, tid, 2) # {} =>
          IF MirrorOfLeg1(matches, tid)
          THEN ~leg2_started(matches, tid) =>
                 r.resp.code = 200 /\ r.matches = matches
          ELSE /\ IsConflict(r.resp)
               /\ r.matches = matches
               /\ r.tournaments = tournaments

\* a complete second leg that is not started, in a tournament that has begun
C10_Witness ==
  \E tid \in DOMAIN tournaments :
     /\ LegOf(matches, tid, 2) # {}
     /\ MirrorOfLeg1(matches, tid)
     /\ ~leg2_started(matches, tid)
     /\ second_leg_result(tournaments, matches, tid, TRUE, "editor").resp.detail = "complete"
     /\ \E id \in LegOf(matches, tid, 1) : matches[id].state = "finished"

\* some leg-2 match is not scheduled, or one of its sides has goals or a club
Leg2Touched(ms, tid) ==
  \E id \in MatchesOf(ms, tid) :
     /\ ms[id].leg = 2
     /\ \/ ms[id].state \in {"playing", "finished"}
        \/ \E side \in {ms[id].A, ms[id].B} : side.goals # 0 \/ side.club_id # None

C12_AdminDisablesStarted ==
  \A tid \in DOMAIN tournaments :
     LET r == second_leg_result(tournaments, matches, tid, FALSE, "admin")
     IN Leg2Touched(matches, tid) =>
          /\ r.resp.code = 200
          /\ \A id \in MatchesOf(r.matches, tid) : r.matches[id].leg # 2

\* ---- C13: a reassign on a tournament that is not 2v2, or has no match, or
\* has a match (of either leg) that is not scheduled, carries a timestamp, or
\* has goals or a club on a side, is answered 409 and leaves the match table
\* (rows, sides, rosters, order indices) and the tournament table as they were.
C13_Case(tid) ==
  \/ tournaments[tid].mode # "2v2"
  \/ MatchesOf(matches, tid) = {}
  \/ \E id \in MatchesOf(matches, tid) :
        \/ matches[id].state # "scheduled"
        \/ matches[id].started_at # None \/ matches[id].finished_at # None
        \/ matches[id].A.goals # 0 \/ matches[id].B.goals # 0
        \/ matches[id].A.club_id # None \/ matches[id].B.club_id # None

C13_ReassignRejected ==
  \A tid \in DOMAIN tournaments, randomize_order \in BOOLEAN :
    \A name_shuffle \in ShuffleOutcomes, match_shuffle \in ShuffleOutcomes :
       LET r == reassign_2v2_result(tournaments, matches, tid, randomize_order,
                                    name_shuffle, match_shuffle)
       IN C13_Case(tid) =>
            /\ r.resp.code = 409
            /\ r.matches = matches
            /\ r.tournaments = tournaments

\* a 2v2 tournament with both legs, all matches scheduled, whose reassign is
\* refused only because a result was entered on one side
C13_Witness ==
  \E tid \in DOMAIN tournaments :
     /\ tournaments[tid].mode = "2v2"
     /\ LegOf(matches, tid, 2) # {}
     /\ \A id \in MatchesOf(matches, tid) : matches[id].state = "scheduled"
     /\ \E id \in MatchesOf(matches, tid) : matches[id].A.goals # 0
     /\ reassign_2v2_result(tournaments, matches, tid, TRUE, 1, 1).resp
          = Response(409, "touched", None)

\* match ids of one leg of a tournament by ascending order index
LegInOrder(ms, tid, leg) ==
  SortBy({id \in MatchesOf(ms, tid) : ms[id].leg = leg},
         [id \in MatchesOf(ms, tid) |-> ms[id].order_index])

\* the unordered pairs of the set S
Partnerships(S) == {pp \in SUBSET S : Cardinality(pp) = 2}

\* number of sides among the matches ids of table ms that field exactly pp
SidesWith(ms, ids, pp) ==
  Cardinality({id \in ids : ms[id].A.players = pp})
  + Cardinality({id \in ids : ms[id].B.players = pp})

Schedule(ms, tid) == {ms[id] : id \in MatchesOf(ms, tid)}

\* the store after the k-th of the commits of one call on tournament tid
\* holds the old or the new schedule, and equals the store before the call
\* in matches and label map when the call fails there
AtomicAt(commits, k, tid) ==
  /\ Schedule(commits[k].matches, tid)
       \in {Schedule(matches, tid), Schedule(commits[Len(commits)].matches, tid)}
  /\ k < Len(commits) =>
       /\ commits[k].matches = matches
       /\ commits[k].tournaments[tid].labels = tournaments[tid].labels

\* ---- C15: after every commit of a generate, reassign or second-leg enable
\* call the stored schedule of the tournament is the complete old or the
\* complete new match set, and a call that fails after a commit leaves the
\* stored matches, sides, rosters and label map as they were before the call.
C15_AtomicReplace ==
  \A tid \in DOMAIN tournaments, flag \in BOOLEAN :
    \A name_shuffle \in ShuffleOutcomes, match_shuffle \in ShuffleOutcomes :
       LET g == generate_schedule_commits(tournaments, matches, tid, flag, "editor",
                                          name_shuffle, match_shuffle)
           a == reassign_2v2_commits(tournaments, matches, tid, flag,
                                     name_shuffle, match_shuffle)
           e == second_leg_commits(tournaments, matches, tid, TRUE, "editor")
       IN /\ \A k \in 1..Len(g) : AtomicAt(g, k, tid)
          /\ \A k \in 1..Len(a) : AtomicAt(a, k, tid)
          /\ \A k \in 1..Len(e) : AtomicAt(e, k, tid)

\* the request of this role is not stopped by the done-tournament block
MayReorder(tid, role) ==
  role = "admin" \/ compute_status_for_tournament(matches, tid) # "done"

\* the matches of tournament tid that are not scheduled, in their order
FixedPrefix(ms, tid) ==
  SelectSeq(matches_sorted(ms, tid), LAMBDA id : ms[id].state \in {"playing", "finished"})

\* list names every match id of tournament tid exactly once
IsPermutation(list, tid) ==
  /\ Len(list) = Cardinality(MatchesOf(matches, tid))
  /\ {list[i] : i \in DOMAIN list} = MatchesOf(matches, tid)

\* list starts with the non-scheduled matches in their current order
KeepsPrefix(list, tid) ==
  /\ Len(list) >= Len(FixedPrefix(matches, tid))
  /\ SubSeq(list, 1, Len(FixedPrefix(matches, tid))) = FixedPrefix(matches, tid)

\* ---- C16: for a reorder request that the done-tournament block lets
\* through: if it is accepted, its list starts with the non-scheduled matches
\* in their current order and these matches are afterwards still the first
\* of the schedule, in that order; a permutation that does not start so is
\* answered 409 and no order index changes; a permutation that does is
\* accepted.
C16_PrefixRule ==
  \A tid \in DOMAIN tournaments, role \in Roles :
    \A list \in ListInputs(matches_sorted(matches, tid))
                  \cup Orderings(MatchesOf(matches, tid)) :
       LET r == reorder_result(matches, tid, list, role)
           fixed == FixedPrefix(matches, tid)
       IN (MayReorder(tid, role) /\ MatchesOf(matches, tid) # {}) =>
            /\ r.resp.code = 200 =>
                 /\ KeepsPrefix(list, tid)
                 /\ SubSeq(matches_sorted(r.matches, tid), 1, Len(fixed)) = fixed
            /\ (IsPermutation(list, tid) /\ ~KeepsPrefix(list, tid)) =>
                 r.resp.code = 409 /\ r.matches = matches
            /\ (IsPermutation(list, tid) /\ KeepsPrefix(list, tid)) =>
                 r.resp.code = 200

\* ---- C17: a reorder request that the done-tournament block lets through
\* is accepted only if its list names every match id of the tournament
\* exactly once; any other list is answered 400 and no order index changes.
C17_PermutationOnly ==
  \A tid \in DOMAIN tournaments, role \in Roles :
    \A list \in ListInputs(matches_sorted(matches, tid)) :
       LET r == reorder_result(matches, tid, list, role)
       IN (MayReorder(tid, role) /\ ~IsPermutation(list, tid)) =>
            r.resp.code = 400 /\ r.matches = matches

\* ---- C18: in every reachable state no two matches of one tournament have
\* the same order index.
C18_UniqueOrderIndex ==
  \A x, y \in DOMAIN matches :
     (x # y /\ matches[x].tournament_id = matches[y].tournament_id)
        => matches[x].order_index # matches[y].order_index

\* a second leg was appended to a first leg whose order indices have a gap,
\* left by an accepted reorder list that named an id twice
C18_Witness ==
  \E tid \in DOMAIN tournaments :
     /\ LegOf(matches, tid, 2) # {}
     /\ \E i \in 0..max_order_index(matches, tid) :
          /\ \A id \in MatchesOf(matches, tid) : matches[id].order_index # i
          /\ \E id \in LegOf(matches, tid, 1) : matches[id].order_index > i
     /\ \A id \in LegOf(matches, tid, 2) :
          \A o \in LegOf(matches, tid, 1) : matches[o].order_index < matches[id].order_index

\* the labels of a label list, and the place of a label in it
LabelSet(labels) == {labels[i] : i \in DOMAIN labels}
PlaceOf(labels, l) == CHOOSE i \in DOMAIN labels : labels[i] = l

\* the stored schedule of tournament tid is, match by match in order, the
\* label schedule out: the labels being the tournament's players
StoredAs(tid, out) ==
  /\ Cardinality(MatchesOf(matches, tid)) = Len(out)
  /\ \A k \in DOMAIN out :
       \E id \in MatchesOf(matches, tid) :
          /\ matches[id].order_index = k - 1
          /\ matches[id].A.players = LabelSet(out[k][1])
          /\ matches[id].B.players = LabelSet(out[k][2])

\* ---- C19: for every list of 3, 4 or 5 distinct labels schedule_1v1_labels
\* returns n(n-1)/2 matches, each with one label on either side, the two
\* different; every unordered pair of labels is in exactly one match; the
\* matches come in lexicographic order of the places (i, j), i < j, that
\* their labels have in the list.
C19_AllPairsOnce ==
  \A tid \in DOMAIN tournaments :
     LET labels == tournaments[tid].players
         n == Len(labels)
         out == schedule_1v1_labels(labels)
         a(k) == out[k][1][1]
         b(k) == out[k][2][1]
     IN n \in 3..5 =>
          /\ Len(out) = (n * (n - 1)) \div 2
          /\ \A k \in DOMAIN out :
               /\ Len(out[k]) = 2 /\ Len(out[k][1]) = 1 /\ Len(out[k][2]) = 1
               /\ a(k) \in LabelSet(labels) /\ b(k) \in LabelSet(labels)
               /\ a(k) # b(k)
               /\ PlaceOf(labels, a(k)) < PlaceOf(labels, b(k))
          /\ \A x, y \in LabelSet(labels) :
               x # y => Cardinality({k \in DOMAIN out : {a(k), b(k)} = {x, y}}) = 1
          /\ \A k, l \in DOMAIN out :
               k < l =>
                 \/ PlaceOf(labels, a(k)) < PlaceOf(labels, a(l))
                 \/ /\ a(k) = a(l)
                    /\ PlaceOf(labels, b(k)) < PlaceOf(labels, b(l))

\* a 1v1 tournament of five players, not in the order 1..5, whose stored
\* schedule is the ten matches of schedule_1v1_labels over its players
C19_Witness ==
  \E tid \in DOMAIN tournaments :
     /\ tournaments[tid].mode = "1v1"
     /\ Len(tournaments[tid].players) = 5
     /\ tournaments[tid].players # <<1, 2, 3, 4, 5>>
     /\ Cardinality(MatchesOf(matches, tid)) = 10
     /\ StoredAs(tid, schedule_1v1_labels(tournaments[tid].players))

\* ---- C20: for every order of 4 or 5 distinct labels schedule_2v2_labels
\* returns 3 or 5 matches without error; the sides of a match are two
\* disjoint pairs of labels; every pair of labels is a side exactly once;
\* with 4 labels every label plays in all 3 matches, with 5 in 4 of the 5.
C20_PartnershipsOnce ==
  \A tid \in DOMAIN tournaments :
     LET labels == tournaments[tid].players
         n == Len(labels)
         res == schedule_2v2_labels(labels)
         out == res.matches
         side(k, i) == LabelSet(out[k][i])
     IN n \in {4, 5} =>
          /\ ~res.err
          /\ Len(out) = ((n * (n - 1)) \div 2) \div 2
          /\ Len(out) = IF n = 4 THEN 3 ELSE 5
          /\ \A k \in DOMAIN out :
               /\ Len(out[k]) = 2 /\ Len(out[k][1]) = 2 /\ Len(out[k][2]) = 2
               /\ side(k, 1) \in Partnerships(LabelSet(labels))
               /\ side(k, 2) \in Partnerships(LabelSet(labels))
               /\ side(k, 1) \cap side(k, 2) = {}
          /\ \A pp \in Partnerships(LabelSet(labels)) :
               Cardinality({<<k, i>> \in (DOMAIN out) \X {1, 2} : side(k, i) = pp}) = 1
          /\ \A x \in LabelSet(labels) :
               Cardinality({k \in DOMAIN out : x \in side(k, 1) \cup side(k, 2)})
                 = IF n = 4 THEN 3 ELSE 4

\* a 2v2 tournament of five players, not in the order 1..5, whose stored
\* schedule is the five matches of schedule_2v2_labels over the label places
C20_Witness ==
  \E tid \in DOMAIN tournaments :
     /\ tournaments[tid].mode = "2v2"
     /\ Len(tournaments[tid].players) = 5
     /\ tournaments[tid].players # <<1, 2, 3, 4, 5>>
     /\ tournaments[tid].labels = tournaments[tid].players
     /\ Cardinality(MatchesOf(matches, tid)) = 5
     /\ \A id \in MatchesOf(matches, tid) :
          matches[id].A.players \cap matches[id].B.players = {}
     /\ \A pp \in Partnerships(LabelSet(tournaments[tid].players)) :
          SidesWith(matches, MatchesOf(matches, tid), pp) = 1

\* the two sides of the k-th match of a label schedule, as sets
SideOf(out, k, i) == {out[k][i][j] : j \in DOMAIN out[k][i]}

\* res is a 9-match schedule over the six labels as C21 states it
NineMatchesOver(labels, res) ==
  /\ ~res.err
  /\ Len(res.matches) = 9
  /\ \A k \in DOMAIN res.matches :
       /\ Len(res.matches[k]) = 2
       /\ Len(res.matches[k][1]) = 2 /\ Len(res.matches[k][2]) = 2
       /\ SideOf(res.matches, k, 1) \in Partnerships(LabelSet(labels))
       /\ SideOf(res.matches, k, 2) \in Partnerships(LabelSet(labels))
       /\ SideOf(res.matches, k, 1) \cap SideOf(res.matches, k, 2) = {}
  /\ \A x \in LabelSet(labels) :
       Cardinality({k \in DOMAIN res.matches :
                      x \in SideOf(res.matches, k, 1) \cup SideOf(res.matches, k, 2)}) = 6
  /\ Cardinality(Partnerships(LabelSet(labels))) = 15
  /\ \A pp \in Partnerships(LabelSet(labels)) :
       \E k \in DOMAIN res.matches, i \in {1, 2} : SideOf(res.matches, k, i) = pp

AllScheduledOneLeg(tid) ==
  /\ LegOf(matches, tid, 1) # {}
  /\ LegOf(matches, tid, 2) = {}
  /\ \A id \in MatchesOf(matches, tid) : matches[id].state = "scheduled"

\* a patch is answered 409 "live" only if the tournament would be live after it
C22_PatchLiveOnlyWhenLive ==
  \A mid \in DOMAIN matches, role \in Roles :
    \A body \in StateBodies \cup FullBodies :
       LET r == patch_match_result(tournaments, matches, mid, body, role, 1)
           after == [matches EXCEPT ![mid].state = body.state]
       IN (r.resp.code = 409 /\ r.resp.detail = "live") =>
            compute_status_for_tournament(after, matches[mid].tournament_id) = "live"

\* ---- C22: enabling the second leg of a tournament whose matches are all
\* scheduled (so that it stays draft with both legs) is accepted, whatever the
\* caller's role, even while a different tournament is live.
C22_ScheduledEnableAccepted ==
  \A tid \in DOMAIN tournaments, role \in Roles :
     (AllScheduledOneLeg(tid) /\ LiveTournaments(matches) \ {tid} # {}) =>
        LET r == second_leg_result(tournaments, matches, tid, TRUE, role)
        IN /\ r.resp.code = 200
           /\ LegOf(r.matches, tid, 2) # {}
           /\ compute_status_for_tournament(r.matches, tid) = "draft"

\* the create requests, with and without auto_generate
CreateBodies ==
  {[mode |-> inp[1], player_ids |-> inp[2], auto_generate |-> ag] :
     inp \in CreateInputs, ag \in BOOLEAN}

\* the player count of the body is one generate accepts for its mode
CountValid(body) ==
  \/ body.mode = "1v1" /\ Len(body.player_ids) \in 3..5
  \/ body.mode = "2v2" /\ Len(body.player_ids) \in 4..6

\* ---- C23: a create request that names a player id that does not exist, or
\* that asks for auto-generation with a player count invalid for its mode, is
\* answered 400 and the stored tournaments are the same as before the call.
C23_FailedCreateNoTrace ==
  \A body \in CreateBodies :
     (/\ body.mode \in Modes
      /\ \/ ~(Range(body.player_ids) \subseteq PlayerIds)
         \/ body.auto_generate /\ ~CountValid(body)) =>
        LET r == create_tournament_body(tournaments, body)
        IN /\ r.resp.code = 400
           /\ r.tournaments = tournaments

\* the part that the handler keeps: an unknown player id is answered 400
C23_UnknownPlayerAnswered400 ==
  \A body \in CreateBodies :
     (body.mode \in Modes /\ ~(Range(body.player_ids) \subseteq PlayerIds)) =>
        create_tournament_body(tournaments, body).resp.code = 400

\* ---- C24: in every reachable state, whatever calls (accepted or rejected)
\* led to it, every tournament's stored status column equals the status
\* derived from the states of its current matches.
C24_StatusInSync ==
  \A tid \in DOMAIN tournaments :
     tournaments[tid].status = compute_status_for_tournament(matches, tid)

\* a tournament that was revived by its second leg: stored status live, its
\* first leg finished, and another tournament stored as draft with a schedule
C24_Witness ==
  \E a, b \in DOMAIN tournaments :
     /\ a # b
     /\ tournaments[a].status = "live"
     /\ LegOf(matches, a, 2) # {}
     /\ \A id \in LegOf(matches, a, 1) : matches[id].state = "finished"
     /\ tournaments[b].status = "draft"
     /\ MatchesOf(matches, b) # {}

\* a patch of match mid to a started state that would make its draft
\* tournament live and keeps the order of states
C25_Starts(mid, body) ==
  LET tid == matches[mid].tournament_id
      after == [matches EXCEPT ![mid].state = body.state]
  IN /\ compute_status_for_tournament(matches, tid) = "draft"
     /\ compute_status_for_tournament(after, tid) = "live"
     /\ OrderRankOK(after, tid)

\* the store after the sessions holding w1 and w2 have both committed
BothCommitted(w1, w2) ==
  LET first == commit_writes(tournaments, matches, w1)
  IN commit_writes(first.tournaments, first.matches, w2)

\* ---- C25: while no tournament is live, two patches that would start two
\* different draft tournaments and that both run their checks on the store as
\* it is now are both accepted, and once both have committed both tournaments
\* are live (derived and stored); run one after the other, each as one step,
\* the second is answered 409 naming the first tournament and changes nothing.
C25_StaleChecksBothAccepted ==
  LiveTournaments(matches) = {} =>
    \A mid1, mid2 \in DOMAIN matches, body1, body2 \in StateBodies :
       (/\ matches[mid1].tournament_id # matches[mid2].tournament_id
        /\ C25_Starts(mid1, body1)
        /\ C25_Starts(mid2, body2)) =>
          LET a == matches[mid1].tournament_id
              b == matches[mid2].tournament_id
              r1 == patch_match_result(tournaments, matches, mid1, body1, "editor", 1)
              r2 == patch_match_result(tournaments, matches, mid2, body2, "editor", 1)
              serial == patch_match_result(r1.tournaments, r1.matches, mid2, body2, "editor", 1)
              both == BothCommitted(patch_match_writes(r1, mid1), patch_match_writes(r2, mid2))
          IN /\ r1.resp.code = 200
             /\ r2.resp.code = 200
             /\ LiveTournaments(both.matches) = {a, b}
             /\ both.tournaments[a].status = "live"
             /\ both.tournaments[b].status = "live"
             /\ serial.resp = Response(409, "live", a)
             /\ serial.tournaments = r1.tournaments
             /\ serial.matches = r1.matches

\* two overlapping patches have both committed: two tournaments are live,
\* derived and stored, and no session is open
C25_Witness ==
  /\ sessions = << >>
  /\ Cardinality(LiveTournaments(matches)) = 2
  /\ \A tid \in LiveTournaments(matches) : tournaments[tid].status = "live"

\* number of sides of the label schedule out that hold exactly the pair pp
SideCount(out, pp) ==
  Cardinality({ki \in (DOMAIN out) \X {1, 2} : SideOf(out, ki[1], ki[2]) = pp})

\* number of matches of the label schedule out that label x plays in
PlayCount(out, x) ==
  Cardinality({k \in DOMAIN out : x \in SideOf(out, k, 1) \cup SideOf(out, k, 2)})

\* the first two pairs of every round as a match, and the third pairs
FirstMatches(rounds) == [r \in DOMAIN rounds |-> <<rounds[r][1], rounds[r][2]>>]
Leftovers(rounds) == [r \in DOMAIN rounds |-> rounds[r][3]]

\* the eight matches m8 that follow from the leftover loop's result g
EightMatchesOK(labels, rounds, g, m8) ==
  /\ ~g.broke
  /\ Len(g.extra) = 2
  /\ Len(g.pending) = 1
  /\ \A k \in DOMAIN g.extra : LabelSet(g.extra[k][1]) \cap LabelSet(g.extra[k][2]) = {}
  /\ Cardinality({g.extra[1][1], g.extra[1][2], g.extra[2][1], g.extra[2][2], g.pending[1]}) = 5
  /\ {g.extra[1][1], g.extra[1][2], g.extra[2][1], g.extra[2][2], g.pending[1]}
       = Range(Leftovers(rounds))
  /\ Len(m8) = 8
  /\ SubSeq(m8, 1, 5) = FirstMatches(rounds)
  /\ SubSeq(m8, 6, 7) = g.extra
  /\ m8[8][1] = g.pending[1]
  /\ SideOf(m8, 8, 2) \in Partnerships(LabelSet(labels))
  /\ SideOf(m8, 8, 1) \cap SideOf(m8, 8, 2) = {}
  /\ SideCount(SubSeq(m8, 1, 7), SideOf(m8, 8, 2)) = 1
  /\ Cardinality({pp \in Partnerships(LabelSet(labels)) : SideCount(m8, pp) = 2}) = 1
  /\ Cardinality({pp \in Partnerships(LabelSet(labels)) : SideCount(m8, pp) = 1}) = 14
  /\ Cardinality({x \in LabelSet(labels) : PlayCount(m8, x) = 5}) = 4
  /\ Cardinality({x \in LabelSet(labels) : PlayCount(m8, x) = 6}) = 2
  /\ ~nine_from_eight(labels, m8).err

LeftoverLoopOK(labels, rounds, g) ==
  EightMatchesOK(labels, rounds, g, matches_after_leftovers(labels, FirstMatches(rounds), g))

LeftoverPairingOK(labels, rounds) ==
  /\ Len(rounds) = 5
  /\ \A r \in DOMAIN rounds : Len(rounds[r]) = 3
  /\ LeftoverLoopOK(labels, rounds, pair_leftovers(Leftovers(rounds), <<>>))

\* ---- C26: for every order of 6 labels the leftover loop ends without its
\* defensive break, having paired four of the five leftover pairs into two
\* matches of disjoint pairs; the fifth plays a disjoint pair that is already
\* a side of an earlier match.  The eight matches then hold one partnership
\* twice and the other 14 once, four labels play 5 and two play 6 matches,
\* and neither the match-count nor the 5/6 check raises.
C26_EightMatches ==
  \A tid \in DOMAIN tournaments :
     Len(tournaments[tid].players) = 6 =>
        LeftoverPairingOK(tournaments[tid].players,
                          round_robin_pairings(tournaments[tid].players))

\* the first eight stored matches of tournament tid are the label matches m8
EightStored(tid, m8) ==
  \A k \in 1..8 :
     \E id \in MatchesOf(matches, tid) :
        /\ matches[id].order_index = k - 1
        /\ matches[id].A.players = SideOf(m8, k, 1)
        /\ matches[id].B.players = SideOf(m8, k, 2)

\* a generated 2v2 tournament of six players in another order than 1..6,
\* whose first eight stored matches are the eight matches before the balancing
C26_Witness ==
  \E tid \in DOMAIN tournaments :
     /\ Len(tournaments[tid].players) = 6
     /\ tournaments[tid].players # <<1, 2, 3, 4, 5, 6>>
     /\ Cardinality(MatchesOf(matches, tid)) = 9
     /\ EightStored(tid,
           matches_after_leftovers(tournaments[tid].players,
              FirstMatches(round_robin_pairings(tournaments[tid].players)),
              pair_leftovers(Leftovers(round_robin_pairings(tournaments[tid].players)), <<>>)))

\* the labels paired in round r of rounds, and the pairs of the round as sets
RoundLabels(rounds, r) ==
  UNION {LabelSet(rounds[r][i]) : i \in DOMAIN rounds[r]}
RoundSets(rounds, r) == {LabelSet(rounds[r][i]) : i \in DOMAIN rounds[r]}

\* rounds is a 1-factorization of the pairs of the n labels (n even), or of
\* the n labels and a bye whose pairs are dropped (n odd)
OneFactorization(labels, rounds) ==
  LET n == Len(labels)
      m == IF n % 2 = 0 THEN n ELSE n + 1
  IN /\ Len(rounds) = m - 1
     /\ \A r \in DOMAIN rounds :
          /\ Len(rounds[r]) = n \div 2
          /\ \A i \in DOMAIN rounds[r] : Len(rounds[r][i]) = 2
          /\ RoundSets(rounds, r) \subseteq Partnerships(LabelSet(labels))
          /\ Cardinality(RoundSets(rounds, r)) = n \div 2
          /\ Cardinality(RoundLabels(rounds, r)) = 2 * (n \div 2)
     /\ \A x \in LabelSet(labels) :
          Cardinality({r \in DOMAIN rounds : x \notin RoundLabels(rounds, r)})
            = IF n % 2 = 0 THEN 0 ELSE 1
     /\ \A pp \in Partnerships(LabelSet(labels)) :
          Cardinality({r \in DOMAIN rounds : pp \in RoundSets(rounds, r)}) = 1

\* ---- C27: for every order of 4, 5 or 6 labels _round_robin_pairings
\* returns n-1 rounds of n/2 disjoint pairs that cover all labels (n = 4, 6)
\* or n rounds of (n-1)/2 disjoint pairs with every label left out of exactly
\* one round (n = 5); every pair of labels is in exactly one round.
C27_OneFactorization ==
  \A tid \in DOMAIN tournaments :
     Len(tournaments[tid].players) \in 4..6 =>
        OneFactorization(tournaments[tid].players,
                         round_robin_pairings(tournaments[tid].players))

\* a generated 2v2 tournament of five players in another order than 1..5
\* whose k-th stored match is played by the two pairs of round k
C27_Witness ==
  \E tid \in DOMAIN tournaments :
     /\ Len(tournaments[tid].players) = 5
     /\ tournaments[tid].players # <<1, 2, 3, 4, 5>>
     /\ StoredAs(tid, FirstMatches(round_robin_pairings(tournaments[tid].players)))

\* number of matches of the label schedule out with the two labels of the
\* pair pp on opposite sides
OppCount(out, pp) ==
  Cardinality({k \in DOMAIN out :
                 \E x \in pp : x \in SideOf(out, k, 1) /\ (pp \ {x}) \subseteq SideOf(out, k, 2)})

\* the balance score of a label schedule: the greatest number of times a
\* partnership is a side, the number of partnerships that are a side exactly
\* twice, the range of the opponent counts, and 25 times the sum of the
\* squared deviations of the opponent counts from 12/5
BalanceScore(labels, out) ==
  LET pairs == Partnerships(LabelSet(labels))
  IN << Max({SideCount(out, pp) : pp \in pairs}),
        Cardinality({pp \in pairs : SideCount(out, pp) = 2}),
        Max({OppCount(out, pp) : pp \in pairs}) - Min({OppCount(out, pp) : pp \in pairs}),
        SumOver(pairs, [pp \in pairs |-> (5 * OppCount(out, pp) - 12) * (5 * OppCount(out, pp) - 12)]) >>

\* a before b in the lexicographic order of 4-tuples
LexLess(a, b) ==
  \/ a[1] < b[1]
  \/ a[1] = b[1] /\ a[2] < b[2]
  \/ a[1] = b[1] /\ a[2] = b[2] /\ a[3] < b[3]
  \/ a[1] = b[1] /\ a[2] = b[2] /\ a[3] = b[3] /\ a[4] < b[4]

\* the pair pp against the rest of the four labels four, as a match
SplitMatch(four, pp) ==
  <<SortedPair(Min(pp), Max(pp)), SortedPair(Min(four \ pp), Max(four \ pp))>>

\* the labels that play 5 of the eight matches m8
ShortLabels(labels, m8) == {x \in LabelSet(labels) : PlayCount(m8, x) = 5}

\* the schedule m8 with some other split of the short labels is scored
\* higher than the schedule out
BeatenSplit(labels, m8, out) ==
  \E pp \in Partnerships(ShortLabels(labels, m8)) :
     LexLess(BalanceScore(labels, out),
             BalanceScore(labels, Append(m8, SplitMatch(ShortLabels(labels, m8), pp))))

\* res is m8 with a ninth match as C28 states it
NinthMatchOK(labels, m8, res) ==
  /\ ~res.err
  /\ Len(res.matches) = 9
  /\ SubSeq(res.matches, 1, 8) = m8
  /\ Cardinality(ShortLabels(labels, m8)) = 4
  /\ SideOf(res.matches, 9, 1) \cup SideOf(res.matches, 9, 2) = ShortLabels(labels, m8)
  /\ SideOf(res.matches, 9, 1) \in Partnerships(ShortLabels(labels, m8))
  /\ SideOf(res.matches, 9, 2) = ShortLabels(labels, m8) \ SideOf(res.matches, 9, 1)
  /\ Cardinality(Partnerships(ShortLabels(labels, m8))) = 6
  /\ \A pp \in Partnerships(ShortLabels(labels, m8)) :
       ~LexLess(BalanceScore(labels, Append(m8, SplitMatch(ShortLabels(labels, m8), pp))),
                BalanceScore(labels, res.matches))
  /\ \A pp \in Partnerships(LabelSet(labels)) : SideCount(res.matches, pp) <= 2

\* the eight matches before the balancing match
EightOf(labels, rounds) ==
  matches_after_leftovers(labels, FirstMatches(rounds),
                          pair_leftovers(Leftovers(rounds), <<>>))

ReorderedTo(r, tid, list) ==
  /\ matches_sorted(r.matches, tid) = list
  /\ \A i \in DOMAIN list : r.matches[list[i]].order_index = i - 1
  /\ {r.matches[id].order_index : id \in MatchesOf(r.matches, tid)}
       = 0..(Cardinality(MatchesOf(matches, tid)) - 1)
  /\ DOMAIN r.matches = DOMAIN matches
  /\ \A id \in DOMAIN matches :
       [r.matches[id] EXCEPT !.order_index = matches[id].order_index] = matches[id]
  /\ \A id \in DOMAIN matches \ MatchesOf(matches, tid) : r.matches[id] = matches[id]
  /\ compute_status_for_tournament(r.matches, tid)
       = compute_status_for_tournament(matches, tid)

\* ---- C29: after an accepted reorder with list L the matches of the
\* tournament sorted by order index are exactly L, the match at place i of L
\* has order index i-1, the indices are 0..n-1, every other field of every
\* match is as before, and so is the derived status.
C29_ReorderSetsPositions ==
  \A tid \in DOMAIN tournaments, role \in Roles :
    \A list \in ListInputs(matches_sorted(matches, tid))
                  \cup Orderings(MatchesOf(matches, tid)) :
       LET r == reorder_result(matches, tid, list, role)
       IN r.resp.code = 200 => ReorderedTo(r, tid, list)

\* the same for the lists that name every match id exactly once
C29_PermutationReorder ==
  \A tid \in DOMAIN tournaments, role \in Roles :
    \A list \in Orderings(MatchesOf(matches, tid)) :
       LET r == reorder_result(matches, tid, list, role)
       IN r.resp.code = 200 => ReorderedTo(r, tid, list)

\* ---- C30: in every reachable state a scheduled match has neither a start
\* nor a finish timestamp, a playing match has a start and no finish
\* timestamp, and a finished match has both.
C30_TimestampsFitState ==
  \A id \in DOMAIN matches :
     /\ matches[id].state = "scheduled" =>
          matches[id].started_at = None /\ matches[id].finished_at = None
     /\ matches[id].state = "playing" =>
          matches[id].started_at # None /\ matches[id].finished_at = None
     /\ matches[id].state = "finished" =>
          matches[id].started_at # None /\ matches[id].finished_at # None

\* a tournament with a second leg of which one match is finished, one is
\* playing and one is scheduled
C30_Witness ==
  \E tid \in DOMAIN tournaments :
     {matches[id].state : id \in LegOf(matches, tid, 2)} = States

====
